---- MODULE Spec2Model ----
(***************************************************************************)
(* Sitemap discovery of sfheadless: sitemap.js (robots.txt locator,        *)
(* processSitemap, runScreamingFrog) and a11y.js                           *)
(* (createUrlListFromSitemap) under Spec, where a fetch is one step; and   *)
(* one fetchWithRetry call of either script, request by request, under     *)
(* SpecFetch.                                                              *)
(*                                                                         *)
(* Strings are sequences of characters; a character is a one-character     *)
(* string, except NUL and HIGH which stand for a control byte and a byte   *)
(* above 126.  The value `undefined' of JavaScript is the one-element      *)
(* tuple Undefined.                                                        *)
(***************************************************************************)
EXTENDS Integers, Sequences, FiniteSets, TLC

VARIABLES
    script,        \* which program runs: "sitemap.js" or "a11y.js"
    websiteUrl,    \* process.argv[2]
    pc,            \* position of main
    robotsTxt,     \* local of findSitemapsFromRobotsTxt: the fetched content
    robotsFetch,   \* outcome of the robots.txt fetch: "none", "ok", "failed"
    sitemapUrls,   \* main's list of sitemaps to process
    idx,           \* position of main's for loop in sitemapUrls
    frame,         \* processSitemap: which try/catch block is executing
    todo,          \* processSitemap: pending runScreamingFrog calls
    sitemapContent,\* processSitemap: outcome of fetchWithRetry(sitemapUrl)
    crawlLog,      \* crawler invocations of the processSitemap call in progress
    a11ySitemapUrl,\* a11y.js: main's sitemapUrl, returned by findSitemapUrl
    a11ySitemap,   \* a11y.js: outcome of fetchWithRetry(sitemapUrl)
    childResults,  \* a11y.js: what each processed child of the index yielded
    childIdx,      \* a11y.js: loop counter i of the child loop
    urls,          \* a11y.js: the local array urls
    listFile,      \* a11y.js: content of url_list.csv (NoFile when absent)
    sitemapMatches,\* a11y.js: the Sitemap declarations findSitemapUrl matched
    probes,        \* a11y.js: outcomes of the probes findSitemapUrl has made
    urlListCsv,    \* a11y.js: the text of url_list.csv (NoFile when absent)
    audits,        \* a11y.js: crawler invocations of runAccessibilityAudit
    summaryFile,   \* a11y.js: accessibility_summary.html (NoFile when absent)
    web,           \* the server side of one fetchWithRetry call: its redirects
    target,        \* the url argument of the fetchWithRetry call
    reqUrl,        \* the url argument of the fetchUrl call in progress
    fpc,           \* position of the fetchWithRetry call
    hops,          \* redirects followed by the top-level fetchUrl call so far
    res,           \* what the last HTTP request was answered with
    settled,       \* state of the promise of the top-level fetchUrl call
    attemptLog,    \* how each finished top-level fetchUrl call was settled
    curlOutput,    \* sitemap.js: outcome of the curl command, NoCurl if not run
    result,        \* state of the promise of the fetchWithRetry call
    fetchRetries,  \* a11y.js: the local retries of fetchWithRetry
    lastError,     \* a11y.js: the local lastError of fetchWithRetry
    waits          \* a11y.js: the delays of the setTimeout calls, in ms

vars == <<script, websiteUrl, pc, robotsTxt, robotsFetch, sitemapUrls, idx,
          frame, todo, sitemapContent, crawlLog, a11ySitemapUrl, a11ySitemap,
          childResults, childIdx, urls, listFile, sitemapMatches, probes,
          urlListCsv, audits, summaryFile, web, target, reqUrl, fpc,
          hops, res, settled, attemptLog, curlOutput, result, fetchRetries,
          lastError, waits>>

sitemapVars == <<robotsTxt, robotsFetch, sitemapUrls, idx, frame, todo,
                 sitemapContent, crawlLog>>
a11yVars == <<a11ySitemapUrl, a11ySitemap, childResults, childIdx, urls,
              listFile, sitemapMatches, probes, urlListCsv, audits,
              summaryFile>>
fetchVars == <<web, target, reqUrl, fpc, hops, res, settled, attemptLog,
               curlOutput, result, fetchRetries, lastError, waits>>
mainVars == <<websiteUrl, pc, sitemapVars, a11yVars>>

-----------------------------------------------------------------------------
(* Bounds of the explored inputs *)

MaxRobotsLines == 2
MaxChildren == 2
MaxEntries == 2
MaxChildEntries == 1
MaxIndexEntries == 4

-----------------------------------------------------------------------------
(* Characters and strings *)

NUL == "NUL"
HIGH == "HIGH"
REPLACEMENT == "U+FFFD"
Undefined == <<"undefined">>

\* String.prototype.charCodeAt(0) on the characters that occur
charCodeAt(c) ==
    CASE c = NUL -> 0
      [] c = "\t" -> 9
      [] c = "\n" -> 10
      [] c = "\r" -> 13
      [] c = " " -> 32
      [] c = "#" -> 35
      [] c = "*" -> 42
      [] c = "-" -> 45
      [] c = "." -> 46
      [] c = "/" -> 47
      [] c = ":" -> 58
      [] c = "<" -> 60
      [] c = ">" -> 62
      [] c = "A" -> 65
      [] c = "E" -> 69
      [] c = "I" -> 73
      [] c = "M" -> 77
      [] c = "P" -> 80
      [] c = "S" -> 83
      [] c = "T" -> 84
      [] c = "U" -> 85
      [] c = "_" -> 95
      [] c = "a" -> 97
      [] c = "b" -> 98
      [] c = "c" -> 99
      [] c = "d" -> 100
      [] c = "e" -> 101
      [] c = "g" -> 103
      [] c = "h" -> 104
      [] c = "i" -> 105
      [] c = "l" -> 108
      [] c = "m" -> 109
      [] c = "n" -> 110
      [] c = "o" -> 111
      [] c = "p" -> 112
      [] c = "r" -> 114
      [] c = "s" -> 115
      [] c = "t" -> 116
      [] c = "u" -> 117
      [] c = "x" -> 120
      [] c = HIGH -> 200
      [] c = REPLACEMENT -> 65533

\* String.prototype.toLowerCase, one character
toLowerChar(c) ==
    CASE c = "A" -> "a"
      [] c = "E" -> "e"
      [] c = "I" -> "i"
      [] c = "M" -> "m"
      [] c = "P" -> "p"
      [] c = "S" -> "s"
      [] c = "T" -> "t"
      [] c = "U" -> "u"
      [] OTHER -> c

toLowerCase(s) == [i \in 1..Len(s) |-> toLowerChar(s[i])]

\* the white space of \s and of String.prototype.trim
IsSpace(c) == c \in {" ", "\t", "\n", "\r"}

RECURSIVE trimStart(_)
trimStart(s) ==
    IF s # <<>> /\ IsSpace(s[1]) THEN trimStart(Tail(s)) ELSE s

RECURSIVE trimEnd(_)
trimEnd(s) ==
    IF s # <<>> /\ IsSpace(s[Len(s)])
    THEN trimEnd(SubSeq(s, 1, Len(s) - 1))
    ELSE s

trim(s) == trimEnd(trimStart(s))

startsWith(s, p) == Len(s) >= Len(p) /\ SubSeq(s, 1, Len(p)) = p

\* String.prototype.indexOf(c), 1-based; 0 when c does not occur (-1 in JS)
RECURSIVE indexOfFrom(_, _, _)
indexOfFrom(s, c, i) ==
    IF i > Len(s) THEN 0
    ELSE IF s[i] = c THEN i
    ELSE indexOfFrom(s, c, i + 1)

indexOf(s, c) == indexOfFrom(s, c, 1)

\* String.prototype.substring(k + 1) for the character at 1-based position k:
\* everything behind that character
substringFrom(s, k) == SubSeq(s, k + 1, Len(s))

\* String.prototype.split('\n')
RECURSIVE splitLines(_, _)
splitLines(s, cur) ==
    IF s = <<>> THEN <<cur>>
    ELSE IF s[1] = "\n" THEN <<cur>> \o splitLines(Tail(s), <<>>)
    ELSE splitLines(Tail(s), Append(cur, s[1]))

split(s) == splitLines(s, <<>>)

RECURSIVE joinLines(_)
joinLines(lines) ==
    IF lines = <<>> THEN <<>>
    ELSE IF Len(lines) = 1 THEN lines[1]
    ELSE lines[1] \o <<"\n">> \o joinLines(Tail(lines))

-----------------------------------------------------------------------------
(* URLs *)

HttpScheme == <<"h", "t", "t", "p", ":", "/", "/">>
HttpsScheme == <<"h", "t", "t", "p", "s", ":", "/", "/">>
RobotsPath == <<"/", "r", "o", "b", "o", "t", "s", ".", "t", "x", "t">>
SitemapXmlPath == <<"/", "s", "i", "t", "e", "m", "a", "p", ".", "x", "m", "l">>
SitemapIndexXmlPath ==
    <<"/", "s", "i", "t", "e", "m", "a", "p", "_", "i", "n", "d", "e", "x",
      ".", "x", "m", "l">>

\* length of the scheme prefix that new URL() accepts here, 0 when none
SchemeLen(u) ==
    IF u = Undefined THEN 0
    ELSE IF startsWith(toLowerCase(u), HttpScheme) THEN Len(HttpScheme)
    ELSE IF startsWith(toLowerCase(u), HttpsScheme) THEN Len(HttpsScheme)
    ELSE 0

\* position of the last character of the host
HostEnd(u) ==
    LET slash == indexOfFrom(u, "/", SchemeLen(u) + 1)
    IN  IF slash = 0 THEN Len(u) ELSE slash - 1

\* new URL(u) succeeds: an absolute http(s) URL with a host
IsValidUrl(u) == SchemeLen(u) > 0 /\ HostEnd(u) > SchemeLen(u)

\* new URL(u).origin
origin(u) == SubSeq(u, 1, HostEnd(u))

\* new URL(u).pathname
pathname(u) ==
    LET query == indexOfFrom(u, "?", HostEnd(u) + 1)
        hash == indexOfFrom(u, "#", HostEnd(u) + 1)
        last == IF query # 0 /\ (hash = 0 \/ query < hash) THEN query - 1
                ELSE IF hash # 0 THEN hash - 1
                ELSE Len(u)
    IN  IF HostEnd(u) = last THEN <<"/">> ELSE SubSeq(u, HostEnd(u) + 1, last)

\* websiteUrl.replace(/\/$/, '')
baseUrl ==
    IF websiteUrl # <<>> /\ websiteUrl[Len(websiteUrl)] = "/"
    THEN SubSeq(websiteUrl, 1, Len(websiteUrl) - 1)
    ELSE websiteUrl

\* new URL(baseUrl)
urlObj == [origin |-> origin(baseUrl), pathname |-> pathname(baseUrl)]

-----------------------------------------------------------------------------
(* isTextContent *)

isPrintable(char) == char > 31 /\ char < 127

\* isTextContent with >= in place of >
isTextContent_atLeast(content) ==
    LET printableChars ==
            Len(SelectSeq(content, LAMBDA c : isPrintable(charCodeAt(c))))
    IN  IF Len(content) = 0 THEN FALSE
        ELSE 10 * printableChars >= 8 * Len(content)

\* printableChars / content.length > 0.8; 0 / 0 is NaN and NaN > 0.8 is false
isTextContent(content) ==
    LET printableChars ==
            Len(SelectSeq(content, LAMBDA c : isPrintable(charCodeAt(c))))
    IN  IF Len(content) = 0 THEN FALSE
        ELSE 10 * printableChars > 8 * Len(content)

-----------------------------------------------------------------------------
(* The regular expression /Sitemap:\s*(https?:\/\/[^\s\n\r]+)/gi *)

SitemapColon == <<"s", "i", "t", "e", "m", "a", "p", ":">>
ColonSlashSlash == <<":", "/", "/">>

lowerAt(s, i, n) ==
    IF i + n - 1 > Len(s) THEN <<>> ELSE toLowerCase(SubSeq(s, i, i + n - 1))

RECURSIVE skipSpaces(_, _)
skipSpaces(s, i) ==
    IF i <= Len(s) /\ IsSpace(s[i]) THEN skipSpaces(s, i + 1) ELSE i

RECURSIVE skipNonSpaces(_, _)
skipNonSpaces(s, i) ==
    IF i <= Len(s) /\ ~IsSpace(s[i]) THEN skipNonSpaces(s, i + 1) ELSE i

\* the match that starts at position i: [from |-> start of the group,
\* to |-> last position of the match], to = 0 when there is none
regexMatchAt(s, i) ==
    LET j == skipSpaces(s, i + 8)
        k == IF lowerAt(s, j + 4, 1) = <<"s">> THEN j + 5 ELSE j + 4
        e == skipNonSpaces(s, k + 3)
    IN  IF /\ lowerAt(s, i, 8) = SitemapColon
           /\ lowerAt(s, j, 4) = <<"h", "t", "t", "p">>
           /\ lowerAt(s, k, 3) = ColonSlashSlash
           /\ e > k + 3
        THEN [from |-> j, to |-> e - 1]
        ELSE [from |-> 0, to |-> 0]

\* robotsTxt.match(re) followed by match.replace(/^Sitemap:\s*/i, '').trim()
RECURSIVE regexSitemaps(_, _)
regexSitemaps(s, i) ==
    IF i > Len(s) THEN <<>>
    ELSE LET m == regexMatchAt(s, i)
         IN  IF m.to = 0 THEN regexSitemaps(s, i + 1)
             ELSE <<trim(SubSeq(s, m.from, m.to))>> \o regexSitemaps(s, m.to + 1)

-----------------------------------------------------------------------------
(* findSitemapsFromRobotsTxt: the scan of a fetched robots.txt *)

robotsUrl == urlObj.origin \o RobotsPath

\* String.prototype.lastIndexOf(c), 1-based; 0 when c does not occur
RECURSIVE lastIndexOf(_, _)
lastIndexOf(s, c) ==
    IF s = <<>> THEN 0
    ELSE IF s[Len(s)] = c THEN Len(s)
    ELSE lastIndexOf(SubSeq(s, 1, Len(s) - 1), c)

\* sitemapValue cutting at the last colon of the line
sitemapValue_lastColon(line) ==
    LET colonIndex == lastIndexOf(line, ":")
    IN  IF colonIndex # 0 THEN trim(substringFrom(line, colonIndex)) ELSE <<>>

\* the value after the first colon of the line
sitemapValue(line) ==
    LET colonIndex == indexOf(line, ":")
    IN  IF colonIndex # 0 THEN trim(substringFrom(line, colonIndex)) ELSE <<>>

isSitemapLine(line) == startsWith(toLowerCase(trim(line)), SitemapColon)

\* split('\n').filter(...).map(...).filter((url) => url.length > 0)
lineScan(content) ==
    LET sitemapLines == SelectSeq(split(content), isSitemapLine)
        values == [i \in 1..Len(sitemapLines) |-> sitemapValue(sitemapLines[i])]
    IN  SelectSeq(values, LAMBDA url : Len(url) > 0)

scanRobotsTxt(content) ==
    IF isTextContent(content) THEN lineScan(content)
    ELSE regexSitemaps(content, 1)

\* the list returned from the catch block
fallbackAfterFetchFailure ==
    <<baseUrl \o SitemapXmlPath, baseUrl \o SitemapIndexXmlPath>>

-----------------------------------------------------------------------------
(* Folder names: prepareOutputFolder and runScreamingFrog *)

replaceAll(s, a, b) == [i \in 1..Len(s) |-> IF s[i] = a THEN b ELSE s[i]]

DotXml == <<".", "x", "m", "l">>
WwwDot == <<"w", "w", "w", ".">>

\* .replace(/\.xml$/, '')
stripDotXml(s) ==
    IF Len(s) >= 4 /\ SubSeq(s, Len(s) - 3, Len(s)) = DotXml
    THEN SubSeq(s, 1, Len(s) - 4)
    ELSE s

\* .replace(/^_/, '')
stripLeadingUnderscore(s) == IF s # <<>> /\ s[1] = "_" THEN Tail(s) ELSE s

\* pathname.replace(/\//g, '_').replace(/\.xml$/, '').replace(/^_/, '')
safeName(url) ==
    stripLeadingUnderscore(stripDotXml(replaceAll(pathname(url), "/", "_")))

MainName == <<"m", "a", "i", "n">>
SitemapIndexName ==
    <<"s", "i", "t", "e", "m", "a", "p", "_", "i", "n", "d", "e", "x">>
SitemapUnderscore == <<"s", "i", "t", "e", "m", "a", "p", "_">>

\* new URL(baseUrl).hostname
domain == SubSeq(baseUrl, SchemeLen(baseUrl) + 1, HostEnd(baseUrl))

\* domain.replace(/^www\./, '').replace(/\./g, '_')
domainName ==
    replaceAll(IF startsWith(domain, WwwDot) THEN SubSeq(domain, 5, Len(domain))
               ELSE domain, ".", "_")

\* a folder is the sequence of its path segments below config.outputFolder
NoFolder == <<>>

prepareOutputFolder(sitemapUrl, isIndex) ==
    LET sitemapName == safeName(sitemapUrl)
        folderSuffix == IF sitemapName = <<>> THEN MainName ELSE sitemapName
        folderName == IF isIndex THEN SitemapIndexName ELSE folderSuffix
    IN  <<SitemapUnderscore \o domainName, folderName>>

\* the OUTPUT_FOLDER that runScreamingFrog crawls into
outputFolderOf(sitemapUrl, parentFolder) ==
    IF parentFolder # NoFolder
    THEN LET childName == safeName(sitemapUrl)
         IN  Append(parentFolder,
                    IF childName = <<>> THEN MainName ELSE childName)
    ELSE prepareOutputFolder(sitemapUrl, FALSE)

\* runScreamingFrog throws before its try block: new URL(sitemapUrl) fails.
\* The calls of fs (existsSync, mkdirSync) in front of the try block are taken
\* to succeed; whatever the crawler command does is caught inside the block.
runScreamingFrogThrows(sitemapUrl) == ~IsValidUrl(sitemapUrl)

-----------------------------------------------------------------------------
(* XML documents and XMLParser.parse *)

\* an entry element of a document: <sitemap> or <url>; empty is <url/>,
\* which the parser turns into the empty string
Entry(loc) == [empty |-> FALSE, loc |-> loc]
EmptyEntry == [empty |-> TRUE, loc |-> Undefined]

NoRoot == [present |-> FALSE, entries |-> <<>>]
Root(entries) == [present |-> TRUE, entries |-> entries]

Doc(index, urlset) ==
    [sitemapindex |-> index, urlset |-> urlset, malformed |-> FALSE]
MalformedDoc ==
    [sitemapindex |-> NoRoot, urlset |-> NoRoot, malformed |-> TRUE]

\* what the parser gives for the children of a root element: nothing, the
\* single child itself, or an array of two and more children
parseChildren(root) ==
    [isArray |-> Len(root.entries) >= 2,
     item |-> IF Len(root.entries) = 1 THEN root.entries[1] ELSE EmptyEntry,
     items |-> IF Len(root.entries) >= 2 THEN root.entries ELSE <<>>,
     present |-> root.present /\ root.entries # <<>>]

XMLParse(doc) ==
    [sitemapindex |-> parseChildren(doc.sitemapindex),
     urlset |-> parseChildren(doc.urlset)]

\* truthiness of parsed.<root> && parsed.<root>.<child>
truthy(children) ==
    children.present /\ (children.isArray \/ ~children.item.empty)

\* asArray without the wrapping of a single entry
asArray_noWrap(children) == children.items

\* Array.isArray(x) ? x : [x]
asArray(children) ==
    IF children.isArray THEN children.items ELSE <<children.item>>

\* entry.loc
locOf(entry) == IF entry.empty THEN Undefined ELSE entry.loc

isTruthyLoc(loc) == loc # Undefined /\ loc # <<>>

-----------------------------------------------------------------------------
(* Fetching *)

NoDoc == Doc(NoRoot, NoRoot)
Content(chars, doc) == [chars |-> chars, doc |-> doc]
Fetched(content) == [ok |-> TRUE, content |-> content]
FetchFailed == [ok |-> FALSE, content |-> Content(<<>>, NoDoc)]

\* sitemap.js fetchWithRetry: fetchUrl, then curl when the content is not text
\* the curl command of fetchWithRetry is executed
curlRuns(url, primary) ==
    IsValidUrl(url) /\ primary.ok /\ ~isTextContent(primary.content.chars)

\* the outcomes of curl to draw from: one placeholder when curl does not run
curlChoices(url, primary, outcomes) ==
    IF curlRuns(url, primary) THEN outcomes ELSE {FetchFailed}

\* fetchWithRetry that prefers whatever curl printed
fetchWithRetry_curlAlways(url, primary, curl) ==
    IF ~IsValidUrl(url) \/ ~primary.ok THEN FetchFailed
    ELSE IF isTextContent(primary.content.chars) THEN primary
    ELSE IF curl.ok THEN curl
    ELSE primary

\* what the fetchWithRetry call gives for the outcomes of fetchUrl and curl
fetchWithRetry(url, primary, curl) ==
    IF ~IsValidUrl(url) \/ ~primary.ok THEN FetchFailed
    ELSE IF isTextContent(primary.content.chars) THEN primary
    ELSE IF curl.ok /\ isTextContent(curl.content.chars) THEN curl
    ELSE primary

-----------------------------------------------------------------------------
(* The explored inputs *)

Host == <<"h">>
UrlA == HttpScheme \o Host \o <<"/", "a", ".", "x", "m", "l">>
UrlB == HttpsScheme \o Host \o <<"/", "b">>
UrlRelative == <<"/", "c", ".", "x", "m", "l">>
\* the second page of UrlA
UrlAPage2 == UrlA \o <<"?", "p", "=", "2">>

WebsiteUrls ==
    { HttpScheme \o Host,
      HttpScheme \o Host \o <<"/">>,
      HttpScheme \o Host \o <<"/", "/">>,
      HttpScheme \o Host \o <<"/", "p">> }

A11yWebsiteUrls ==
    { HttpScheme \o Host, HttpScheme \o Host \o <<"/", "p", "/">> }

RobotsLines ==
    { <<"S", "i", "t", "e", "m", "a", "p", ":", " ">> \o UrlA,
      <<"s", "i", "t", "e", "m", "a", "p", ":">> \o UrlB \o <<"\r">>,
      <<" ", "S", "I", "T", "E", "M", "A", "P", ":", " ">> \o UrlRelative
          \o <<" ">>,
      <<"S", "i", "t", "e", "m", "a", "p", ":", " ">>,
      <<"U", "s", "e", "r", "-", "a", "g", "e", "n", "t", ":", " ", "*">>,
      <<"#", " ", "S", "i", "t", "e", "m", "a", "p", ":", " ">> \o UrlA,
      <<>>,
      <<NUL, HIGH, NUL, HIGH, NUL, HIGH>> }

RECURSIVE SeqsUpTo(_, _)
SeqsUpTo(S, n) ==
    IF n = 0 THEN {<<>>}
    ELSE LET shorter == SeqsUpTo(S, n - 1)
         IN  shorter \cup { Append(q, x) : q \in shorter, x \in S }

\* 24 printable characters out of 30: a declaration behind a '#', then a
\* line of bytes
EightyPercentBody ==
    <<"#", "S", "i", "t", "e", "m", "a", "p", ":", " ">> \o UrlA
        \o <<"\n", NUL, HIGH, NUL, HIGH, NUL>>

RobotsBodies ==
    { joinLines(ls) : ls \in SeqsUpTo(RobotsLines, MaxRobotsLines) }
        \cup {EightyPercentBody}

RobotsOutcomes ==
    {FetchFailed} \cup { Fetched(Content(b, NoDoc)) : b \in RobotsBodies }

RobotsCurlOutcomes ==
    { FetchFailed,
      Fetched(Content(<<"S", "i", "t", "e", "m", "a", "p", ":", " ">> \o UrlB,
                      NoDoc)),
      Fetched(Content(<<NUL, NUL>>, NoDoc)) }

XmlChars == <<"<", "x", "m", "l", ">">>
GzipChars == <<NUL, HIGH, "x", NUL>>

IndexEntryValues ==
    { Entry(UrlA), Entry(UrlB), Entry(UrlRelative), Entry(Undefined),
      EmptyEntry }

IndexDocs ==
    { Doc(Root(es), NoRoot) : es \in SeqsUpTo(IndexEntryValues, MaxChildren) }

UrlsetDoc == Doc(NoRoot, Root(<<Entry(UrlA)>>))
BothRootsDoc == Doc(Root(<<Entry(UrlB)>>), Root(<<Entry(UrlA)>>))
\* an index whose children differ in their query string only
PagedIndexDoc == Doc(Root(<<Entry(UrlA), Entry(UrlAPage2)>>), NoRoot)

SitemapDocs ==
    IndexDocs \cup
    { UrlsetDoc, Doc(NoRoot, Root(<<>>)), Doc(NoRoot, Root(<<EmptyEntry>>)),
      BothRootsDoc, PagedIndexDoc, NoDoc, MalformedDoc }

SitemapOutcomes ==
    {FetchFailed, Fetched(Content(GzipChars, NoDoc))}
        \cup { Fetched(Content(XmlChars, d)) : d \in SitemapDocs }

SitemapCurlOutcomes ==
    { FetchFailed, Fetched(Content(XmlChars, UrlsetDoc)),
      Fetched(Content(GzipChars, NoDoc)) }

-----------------------------------------------------------------------------
(* sitemap.js *)

NoFetch == [ok |-> FALSE, content |-> Content(<<"-">>, NoDoc)]

Job(url, parent) == [url |-> url, parent |-> parent]

\* findSitemapsFromRobotsTxt, called from main
findSitemapsFromRobotsTxt ==
    /\ script = "sitemap.js"
    /\ pc = "main"
    /\ \E primary \in RobotsOutcomes :
       \E curl \in curlChoices(robotsUrl, primary, RobotsCurlOutcomes) :
         LET r == fetchWithRetry(robotsUrl, primary, curl)
         IN  IF r.ok
             THEN /\ robotsTxt' = r.content.chars
                  /\ robotsFetch' = "ok"
                  /\ sitemapUrls' = scanRobotsTxt(r.content.chars)
             ELSE /\ robotsTxt' = <<>>
                  /\ robotsFetch' = "failed"
                  /\ sitemapUrls' = fallbackAfterFetchFailure
    /\ pc' = "located"
    /\ UNCHANGED fetchVars
    /\ UNCHANGED <<script, websiteUrl, idx, frame, todo, sitemapContent,
                   crawlLog, a11yVars>>

\* main without the default
defaultIfEmpty_noPush(list) == list

\* main, lines 36-42: sitemapUrls.push(`${baseUrl}/sitemap.xml`) when the
\* locator returned nothing
defaultIfEmpty(list) ==
    IF Len(list) = 0 THEN Append(list, baseUrl \o SitemapXmlPath) ELSE list

\* main, lines 36-48: the default when the locator returned nothing
mainDefault ==
    /\ script = "sitemap.js"
    /\ pc = "located"
    /\ sitemapUrls' = defaultIfEmpty(sitemapUrls)
    /\ robotsTxt' = <<>>
    /\ idx' = 1
    /\ pc' = "loop"
    /\ UNCHANGED fetchVars
    /\ UNCHANGED <<script, websiteUrl, robotsFetch, frame, todo,
                   sitemapContent, crawlLog, a11yVars>>

\* jobsOf where the urlset root is looked at before the sitemapindex root
jobsOf_urlsetFirst(sitemapUrl, parsed) ==
    IF truthy(parsed.urlset)
    THEN <<Job(sitemapUrl, NoFolder)>>
    ELSE IF truthy(parsed.sitemapindex)
    THEN LET sitemaps == asArray(parsed.sitemapindex)
             indexFolderPath == prepareOutputFolder(sitemapUrl, TRUE)
         IN  [i \in 1..Len(sitemaps) |->
                 Job(locOf(sitemaps[i]), indexFolderPath)]
    ELSE <<Job(sitemapUrl, NoFolder)>>

\* the pending crawler calls after the document has been classified
jobsOf(sitemapUrl, parsed) ==
    IF truthy(parsed.sitemapindex)
    THEN LET sitemaps == asArray(parsed.sitemapindex)
             indexFolderPath == prepareOutputFolder(sitemapUrl, TRUE)
         IN  [i \in 1..Len(sitemaps) |->
                 Job(locOf(sitemaps[i]), indexFolderPath)]
    ELSE <<Job(sitemapUrl, NoFolder)>>

\* processSitemap started without waiting for the call before it to return
processSitemap_noAwait ==
    /\ script = "sitemap.js"
    /\ pc = "loop"
    /\ idx <= Len(sitemapUrls)
    /\ \E primary \in SitemapOutcomes :
       \E curl \in curlChoices(sitemapUrls[idx], primary, SitemapCurlOutcomes) :
         LET sitemapUrl == sitemapUrls[idx]
             r == fetchWithRetry(sitemapUrl, primary, curl)
         IN  /\ sitemapContent' = r
             /\ IF ~r.ok
                THEN /\ frame' = "catch"
                     /\ todo' = <<Job(sitemapUrl, NoFolder)>>
                ELSE IF r.content.doc.malformed
                THEN /\ frame' = "catchParse"
                     /\ todo' = <<Job(sitemapUrl, NoFolder)>>
                ELSE /\ frame' = "try"
                     /\ todo' = jobsOf(sitemapUrl, XMLParse(r.content.doc))
    /\ UNCHANGED fetchVars
    /\ UNCHANGED <<script, websiteUrl, pc, robotsTxt, robotsFetch,
                   sitemapUrls, idx, crawlLog, a11yVars>>

\* processSitemap up to its first runScreamingFrog call
processSitemap ==
    /\ script = "sitemap.js"
    /\ pc = "loop"
    /\ frame = "idle"
    /\ idx <= Len(sitemapUrls)
    /\ \E primary \in SitemapOutcomes :
       \E curl \in curlChoices(sitemapUrls[idx], primary, SitemapCurlOutcomes) :
         LET sitemapUrl == sitemapUrls[idx]
             r == fetchWithRetry(sitemapUrl, primary, curl)
         IN  /\ sitemapContent' = r
             /\ IF ~r.ok
                THEN /\ frame' = "catch"
                     /\ todo' = <<Job(sitemapUrl, NoFolder)>>
                ELSE IF r.content.doc.malformed
                THEN /\ frame' = "catchParse"
                     /\ todo' = <<Job(sitemapUrl, NoFolder)>>
                ELSE /\ frame' = "try"
                     /\ todo' = jobsOf(sitemapUrl, XMLParse(r.content.doc))
    /\ UNCHANGED fetchVars
    /\ UNCHANGED <<script, websiteUrl, pc, robotsTxt, robotsFetch,
                   sitemapUrls, idx, crawlLog, a11yVars>>

\* one call of runScreamingFrog from processSitemap
runScreamingFrog ==
    /\ script = "sitemap.js"
    /\ pc = "loop"
    /\ frame # "idle"
    /\ todo # <<>>
    /\ LET job == Head(todo)
           retry == <<Job(sitemapUrls[idx], NoFolder)>>
       IN  IF runScreamingFrogThrows(job.url)
           THEN /\ crawlLog' = crawlLog
                /\ IF frame = "try"
                   THEN /\ frame' = "catchParse"
                        /\ todo' = retry
                        /\ pc' = pc
                   ELSE IF frame = "catchParse"
                   THEN /\ frame' = "catch"
                        /\ todo' = retry
                        /\ pc' = pc
                   ELSE /\ frame' = "idle"
                        /\ todo' = <<>>
                        /\ pc' = "exit1"
           ELSE /\ \E crawlOk \in BOOLEAN :
                     crawlLog' = Append(crawlLog,
                         [url |-> job.url,
                          parent |-> job.parent,
                          folder |-> outputFolderOf(job.url, job.parent),
                          ok |-> crawlOk])
                /\ todo' = Tail(todo)
                /\ UNCHANGED <<frame, pc>>
    /\ UNCHANGED fetchVars
    /\ UNCHANGED <<script, websiteUrl, robotsTxt, robotsFetch, sitemapUrls,
                   idx, sitemapContent, a11yVars>>

\* processSitemap returns to the loop of main
processSitemapReturn ==
    /\ script = "sitemap.js"
    /\ pc = "loop"
    /\ frame # "idle"
    /\ todo = <<>>
    /\ frame' = "idle"
    /\ idx' = idx + 1
    /\ sitemapContent' = NoFetch
    /\ crawlLog' = <<>>
    /\ UNCHANGED fetchVars
    /\ UNCHANGED <<script, websiteUrl, pc, robotsTxt, robotsFetch,
                   sitemapUrls, todo, a11yVars>>

\* main, line 55: all sitemaps processed
mainDone ==
    /\ script = "sitemap.js"
    /\ pc = "loop"
    /\ frame = "idle"
    /\ idx > Len(sitemapUrls)
    /\ pc' = "done"
    /\ UNCHANGED fetchVars
    /\ UNCHANGED <<script, websiteUrl, robotsTxt, robotsFetch, sitemapUrls,
                   idx, frame, todo, sitemapContent, crawlLog, a11yVars>>

-----------------------------------------------------------------------------
(* a11y.js *)

MaxRetries == 3
MaxSitemaps == 3
MaxUrls == 50

NoFile == <<"no file">>

PageUrl(i) == <<"p", ToString(i)>>

PageEntryValues ==
    {Entry(PageUrl(1)), Entry(PageUrl(2)), Entry(Undefined), EmptyEntry}

BigUrlset(n) == Doc(NoRoot, Root([i \in 1..n |-> Entry(PageUrl(i))]))

A11yUrlsetDocs ==
    { Doc(NoRoot, Root(es)) : es \in SeqsUpTo(PageEntryValues, MaxEntries) }
        \cup {BigUrlset(MaxUrls), BigUrlset(MaxUrls + 1)}

A11yIndexDocs ==
    { Doc(Root(es), NoRoot) :
        es \in SeqsUpTo({Entry(UrlA), Entry(Undefined)}, MaxIndexEntries) }

\* a sitemap index of four different children
FourChildIndexDoc ==
    Doc(Root(<<Entry(UrlB), Entry(UrlA), Entry(UrlAPage2), Entry(UrlRelative)>>),
        NoRoot)

A11yDocs ==
    A11yUrlsetDocs \cup A11yIndexDocs
        \cup {FourChildIndexDoc, BothRootsDoc, NoDoc, MalformedDoc}

ChildDocs ==
    { Doc(NoRoot, Root(es)) :
        es \in SeqsUpTo({Entry(PageUrl(1)), Entry(PageUrl(2))},
                        MaxChildEntries) }
        \cup {BigUrlset(MaxUrls), Doc(Root(<<Entry(UrlB)>>), NoRoot),
              MalformedDoc}

\* the answers of the network to the attempts of one fetchWithRetry call
Attempts(contents) ==
    {<<FetchFailed, FetchFailed, FetchFailed>>}
        \cup { <<Fetched(c), FetchFailed, FetchFailed>> : c \in contents }
        \cup { <<FetchFailed, Fetched(c), FetchFailed>> : c \in contents }
        \cup { <<FetchFailed, FetchFailed, Fetched(c)>> : c \in contents }

\* a11y.js fetchUrl: new URL(url) throws inside the promise executor
a11yFetchUrl(url, answer) == IF IsValidUrl(url) THEN answer ELSE FetchFailed

\* a11y.js fetchWithRetry(url, timeout, maxRetries = 3)
RECURSIVE a11yRetryLoop(_, _, _)
a11yRetryLoop(url, attempts, retries) ==
    IF retries < MaxRetries
    THEN IF a11yFetchUrl(url, attempts[retries + 1]).ok
         THEN attempts[retries + 1]
         ELSE a11yRetryLoop(url, attempts, retries + 1)
    ELSE FetchFailed

a11yFetchWithRetry(url, attempts) == a11yRetryLoop(url, attempts, 0)

CommonSitemapPaths ==
    << SitemapXmlPath, SitemapIndexXmlPath,
       <<"/", "s", "i", "t", "e", "m", "a", "p", ".", "p", "h", "p">>,
       <<"/", "s", "i", "t", "e", "m", "a", "p", ".", "t", "x", "t">> >>

\* the loop over commonSitemapPaths; found[i] tells whether the fetch of the
\* i-th path succeeds
RECURSIVE probeCommonPaths(_, _)
probeCommonPaths(found, i) ==
    IF i > Len(CommonSitemapPaths) THEN baseUrl \o SitemapXmlPath
    ELSE IF found[i] THEN baseUrl \o CommonSitemapPaths[i]
    ELSE probeCommonPaths(found, i + 1)

\* the probes of the loop over commonSitemapPaths that are made: it stops
\* at the first path whose fetch succeeds
probesMade(found) ==
    IF \E i \in 1..Len(found) : found[i]
    THEN SubSeq(found, 1, CHOOSE i \in 1..Len(found) :
                              found[i] /\ \A j \in 1..(i - 1) : ~found[j])
    ELSE found

\* locateSitemap that takes the last declaration of robots.txt
locateSitemap_lastMatch(matches, found) ==
    IF Len(matches) > 0 THEN matches[Len(matches)]
    ELSE probeCommonPaths(found, 1)

\* what findSitemapUrl returns: matches[0] of robots.txt, or what the
\* loop over commonSitemapPaths gives
locateSitemap(matches, found) ==
    IF Len(matches) > 0 THEN matches[1]
    ELSE probeCommonPaths(found, 1)

\* the outcomes of the loop over commonSitemapPaths: it is not run when
\* robots.txt declares a sitemap
ProbeOutcomes(matches) ==
    IF Len(matches) > 0 THEN {<<>>}
    ELSE [1..Len(CommonSitemapPaths) -> BOOLEAN]

\* findSitemapUrl(baseUrl), called from main, and the test of main on what
\* it returned
findSitemapUrl ==
    /\ script = "a11y.js"
    /\ pc = "main"
    /\ \E attempts \in Attempts({ Content(b, NoDoc) : b \in RobotsBodies }) :
         LET r == a11yFetchWithRetry(baseUrl \o RobotsPath, attempts)
             matches ==
                 IF r.ok THEN regexSitemaps(r.content.chars, 1) ELSE <<>>
         IN  \E found \in ProbeOutcomes(matches) :
               LET sitemapUrl == locateSitemap(matches, found)
               IN  /\ sitemapMatches' = matches
                   /\ probes' = probesMade(found)
                   /\ a11ySitemapUrl' = sitemapUrl
                   /\ pc' = IF sitemapUrl = <<>> \/ sitemapUrl = Undefined
                            THEN "noSitemap" ELSE "found"
    /\ UNCHANGED fetchVars
    /\ UNCHANGED <<script, websiteUrl, sitemapVars, a11ySitemap,
                   childResults, childIdx, urls, listFile, urlListCsv, audits,
                   summaryFile>>

\* pushLocs where a loc already in the list is not pushed again
pushLocs_dedup(list, entries) ==
    LET locs == SelectSeq([i \in 1..Len(entries) |-> locOf(entries[i])],
                          isTruthyLoc)
        fresh == SelectSeq([i \in 1..Len(locs) |-> i],
                           LAMBDA i :
                               /\ \A j \in 1..Len(list) : list[j] # locs[i]
                               /\ \A j \in 1..(i - 1) : locs[j] # locs[i])
    IN  list \o [k \in 1..Len(fresh) |-> locs[fresh[k]]]

\* min that takes its second argument
min_second(a, b) == b

\* urlset entries pushed onto urls: forEach with the if (url.loc) test
pushLocs(list, entries) ==
    list \o SelectSeq([i \in 1..Len(entries) |-> locOf(entries[i])],
                      isTruthyLoc)

min(a, b) == IF a < b THEN a ELSE b

\* createUrlListFromSitemap up to the child loop or the end of extraction;
\* the locals of findSitemapUrl are gone and sitemapUrl is not read after
\* the fetch
createUrlListFromSitemap ==
    /\ script = "a11y.js"
    /\ pc = "found"
    /\ \E attempts \in Attempts({ Content(XmlChars, d) : d \in A11yDocs }) :
         LET r == a11yFetchWithRetry(a11ySitemapUrl, attempts)
             parsed == XMLParse(r.content.doc)
         IN  /\ a11ySitemap' = r
             /\ IF ~r.ok \/ r.content.doc.malformed
                THEN /\ pc' = "exit1"
                     /\ urls' = urls
                ELSE IF truthy(parsed.sitemapindex)
                THEN /\ pc' = "children"
                     /\ urls' = <<>>
                ELSE IF truthy(parsed.urlset)
                THEN /\ pc' = "collected"
                     /\ urls' = pushLocs(<<>>, asArray(parsed.urlset))
                ELSE /\ pc' = "collected"
                     /\ urls' = <<>>
    /\ childIdx' = 0
    /\ childResults' = <<>>
    /\ sitemapMatches' = <<>>
    /\ probes' = <<>>
    /\ a11ySitemapUrl' = <<>>
    /\ UNCHANGED fetchVars
    /\ UNCHANGED <<script, websiteUrl, sitemapVars, listFile, urlListCsv,
                   audits, summaryFile>>

\* afterChild where a failing child throws away what was collected
afterChild_dropsOnFailure(list, r) ==
    LET childParsed == XMLParse(r.content.doc)
    IN  IF r.ok /\ ~r.content.doc.malformed /\ truthy(childParsed.urlset)
        THEN pushLocs(list, asArray(childParsed.urlset))
        ELSE IF r.ok /\ ~r.content.doc.malformed THEN list
        ELSE <<>>

\* the body of the child loop, lines 184-203: urls after the child whose
\* fetch gave r; a failed fetch or parse is caught and leaves urls alone
afterChild(list, r) ==
    LET childParsed == XMLParse(r.content.doc)
    IN  IF r.ok /\ ~r.content.doc.malformed /\ truthy(childParsed.urlset)
        THEN pushLocs(list, asArray(childParsed.urlset))
        ELSE list

\* one iteration of the child loop of createUrlListFromSitemap
fetchChildSitemap ==
    /\ script = "a11y.js"
    /\ pc = "children"
    /\ LET sitemaps == asArray(XMLParse(a11ySitemap.content.doc).sitemapindex)
           maxSitemaps == min(MaxSitemaps, Len(sitemaps))
           childUrl == locOf(sitemaps[childIdx + 1])
       IN  /\ childIdx < maxSitemaps
           /\ \E attempts \in Attempts({ Content(XmlChars, d) : d \in ChildDocs }) :
                LET r == a11yFetchWithRetry(childUrl, attempts)
                IN  /\ childResults' =
                           Append(childResults,
                                  [ok |-> r.ok, content |-> r.content,
                                   url |-> childUrl])
                    /\ urls' = afterChild(urls, r)
           /\ childIdx' = childIdx + 1
           /\ pc' = IF childIdx + 1 < maxSitemaps THEN "children"
                    ELSE "collected"
    /\ UNCHANGED fetchVars
    /\ UNCHANGED <<script, websiteUrl, sitemapVars, a11ySitemapUrl,
                   a11ySitemap, listFile, sitemapMatches, probes, urlListCsv,
                   audits, summaryFile>>

\* slice that loses the last element
slice_offByOne(list, n) == SubSeq(list, 1, n - 1)

\* urls.slice(0, n)
slice(list, n) == SubSeq(list, 1, n)

\* urlListContent that puts the URLs on one line
urlListContent_oneLine(list) == replaceAll(joinLines(list), "\n", " ")

\* urls.join('\n')
urlListContent(list) == joinLines(list)

\* writeUrlList without the test for an empty list
writeUrlList_noEmptyTest ==
    /\ script = "a11y.js"
    /\ pc = "collected"
    /\ LET maxUrls == min(MaxUrls, Len(urls))
       IN  /\ urls' = slice(urls, maxUrls)
           /\ listFile' = slice(urls, maxUrls)
           /\ urlListCsv' = urlListContent(slice(urls, maxUrls))
           /\ pc' = "listed"
    /\ UNCHANGED fetchVars
    /\ UNCHANGED <<script, websiteUrl, sitemapVars, a11ySitemapUrl,
                   a11ySitemap, childResults, childIdx, sitemapMatches, probes,
                   audits, summaryFile>>

\* createUrlListFromSitemap, lines 223-243: the limit and the list file;
\* listFile is the array written and urlListCsv the text of the file
writeUrlList ==
    /\ script = "a11y.js"
    /\ pc = "collected"
    /\ IF Len(urls) = 0
       THEN /\ pc' = "exit1"
            /\ UNCHANGED <<urls, listFile, urlListCsv>>
       ELSE LET maxUrls == min(MaxUrls, Len(urls))
            IN  /\ urls' = slice(urls, maxUrls)
                /\ listFile' = slice(urls, maxUrls)
                /\ urlListCsv' = urlListContent(slice(urls, maxUrls))
                /\ pc' = "listed"
    /\ UNCHANGED fetchVars
    /\ UNCHANGED <<script, websiteUrl, sitemapVars, a11ySitemapUrl,
                   a11ySitemap, childResults, childIdx, sitemapMatches, probes,
                   audits, summaryFile>>

WCAG_STANDARDS ==
    << <<"W", "C", "A", "G", " ", "2", ".", "0", " ", "A", ":",
         "A", "l", "l", " ", "V", "i", "o", "l", "a", "t", "i", "o", "n", "s">>,
       <<"W", "C", "A", "G", " ", "2", ".", "0", " ", "A", "A", ":",
         "A", "l", "l", " ", "V", "i", "o", "l", "a", "t", "i", "o", "n", "s">>,
       <<"W", "C", "A", "G", " ", "2", ".", "0", " ", "A", "A", "A", ":",
         "A", "l", "l", " ", "V", "i", "o", "l", "a", "t", "i", "o", "n", "s">>,
       <<"W", "C", "A", "G", " ", "2", ".", "1", " ", "A", "A", ":",
         "A", "l", "l", " ", "V", "i", "o", "l", "a", "t", "i", "o", "n", "s">> >>

\* createOutputFolder: ./results/a11y/a11y_<domainName> as path segments
\* below the working directory
createOutputFolder ==
    << <<"r", "e", "s", "u", "l", "t", "s">>, <<"a", "1", "1", "y">>,
       <<"a", "1", "1", "y", "_">> \o domainName >>

\* standardFolder that is the output folder itself
standardFolder_shared(outputFolder, standard) == outputFolder

\* path.join(outputFolder, standard.replace(/:/g, '_').replace(/\s/g, '_'))
standardFolder(outputFolder, standard) ==
    Append(outputFolder, replaceAll(replaceAll(standard, ":", "_"), " ", "_"))

\* standard.split(':')[0]
standardKey(standard) ==
    IF \E i \in 1..Len(standard) : standard[i] = ":"
    THEN SubSeq(standard, 1,
                (CHOOSE i \in 1..Len(standard) :
                    /\ standard[i] = ":"
                    /\ \A j \in 1..(i - 1) : standard[j] # ":") - 1)
    ELSE standard

\* what one run of the crawler leaves: a violations export, no export, or
\* a failure of execSync
CrawlerOutcomes == {"exported", "empty", "failed"}

\* runAccessibilityAudit: the test for the list file and one iteration of
\* the loop over WCAG_STANDARDS; a throw of execSync is caught in the loop.
\* The locals of createUrlListFromSitemap are gone.
runAccessibilityAudit ==
    /\ script = "a11y.js"
    /\ pc \in {"listed", "auditing"}
    /\ IF urlListCsv = NoFile
       THEN /\ pc' = "exit1"
            /\ UNCHANGED audits
       ELSE \E outcome \in CrawlerOutcomes :
              LET standard == WCAG_STANDARDS[Len(audits) + 1]
              IN  /\ audits' =
                         Append(audits,
                                [standard |-> standard,
                                 crawlList |-> urlListCsv,
                                 folder |-> standardFolder(createOutputFolder,
                                                          standard),
                                 outcome |-> outcome])
                  /\ pc' = IF Len(audits) + 1 < Len(WCAG_STANDARDS)
                           THEN "auditing" ELSE "audited"
    /\ a11ySitemap' = NoFetch
    /\ childResults' = <<>>
    /\ childIdx' = 0
    /\ urls' = <<>>
    /\ UNCHANGED fetchVars
    /\ UNCHANGED <<script, websiteUrl, sitemapVars, a11ySitemapUrl, listFile,
                   sitemapMatches, probes, urlListCsv, summaryFile>>

\* the entry of violationData for a standard: an error entry when its folder
\* holds no violations file
violationEntry(standard, audit) ==
    [key |-> standardKey(standard),
     error |-> audit.outcome # "exported"]

\* processSummaryReport(OUTPUT_FOLDER): accessibility_summary.html is written
\* from the violationData of the standards
processSummaryReport ==
    /\ script = "a11y.js"
    /\ pc = "audited"
    /\ summaryFile' = [i \in 1..Len(WCAG_STANDARDS) |->
                          violationEntry(WCAG_STANDARDS[i], audits[i])]
    /\ pc' = "done"
    /\ UNCHANGED fetchVars
    /\ UNCHANGED <<script, websiteUrl, sitemapVars, a11ySitemapUrl,
                   a11ySitemap, childResults, childIdx, urls, listFile,
                   sitemapMatches, probes, urlListCsv, audits>>

-----------------------------------------------------------------------------
(* One fetchWithRetry call, request by request.  fetchUrl is the same in   *)
(* sitemap.js and a11y.js but for the timeout parameter.                   *)

\* an HTTP header that is absent
NoHeader == <<>>

\* what a request is answered with: a response, a socket error, or silence
\* until the timeout event
Response(statusCode, location, contentEncoding, body) ==
    [kind |-> "response", statusCode |-> statusCode, location |-> location,
     contentEncoding |-> contentEncoding, body |-> body]
SocketError == [Response(0, NoHeader, NoHeader, <<>>) EXCEPT !.kind = "error"]
Silence == [Response(0, NoHeader, NoHeader, <<>>) EXCEPT !.kind = "timeout"]
NoAnswer == [Response(0, NoHeader, NoHeader, <<>>) EXCEPT !.kind = "none"]

GzipEncoding == <<"g", "z", "i", "p">>

\* a gzip stream cut short
TruncatedGzipChars == <<NUL, HIGH>>

\* zlib.gunzipSync(buffer): GzipChars is the gzip stream of XmlChars, no
\* other body is a gzip stream
gunzipSync(buffer) ==
    IF buffer = GzipChars THEN [throws |-> FALSE, buffer |-> XmlChars]
    ELSE [throws |-> TRUE, buffer |-> <<>>]

\* the buffer after the 'Try to decompress if gzipped' block
decompress(answer) ==
    IF answer.contentEncoding = GzipEncoding
       /\ ~gunzipSync(answer.body).throws
    THEN gunzipSync(answer.body).buffer
    ELSE answer.body

\* Buffer.prototype.toString(): a byte that is no UTF-8 becomes U+FFFD
bufferToString(buffer) ==
    [i \in 1..Len(buffer) |->
        IF buffer[i] = HIGH THEN REPLACEMENT ELSE buffer[i]]

\* the errors a fetchUrl promise is rejected with
NoError == [kind |-> "none", statusCode |-> 0]
InvalidUrlError == [kind |-> "ERR_INVALID_URL", statusCode |-> 0]
RequestError == [kind |-> "error event", statusCode |-> 0]
TimedOutError == [kind |-> "Request timed out", statusCode |-> 0]
\* StatusCodeError with a message that leaves the code out
StatusCodeError_noCode(statusCode) ==
    [kind |-> "Request failed with status code", statusCode |-> 0]

\* new Error(`Request failed with status code ${res.statusCode}`)
StatusCodeError(statusCode) ==
    [kind |-> "Request failed with status code", statusCode |-> statusCode]

\* states of a promise; a pending fetchUrl promise names the URL it follows
Pending(next) ==
    [state |-> "pending", url |-> next, value |-> <<>>, error |-> NoError]
Resolved(value) ==
    [state |-> "resolved", url |-> <<>>, value |-> value, error |-> NoError]
Rejected(error) ==
    [state |-> "rejected", url |-> <<>>, value |-> <<>>, error |-> error]

\* path up to and including its last slash
directory(path) == SubSeq(path, 1, lastIndexOf(path, "/"))

\* resolveUrl that takes every Location for an absolute URL
resolveUrl_absoluteOnly(location, url) == location

\* new URL(location, url).href for an absolute location, a location that
\* starts with a slash, and a location relative to the directory of url
resolveUrl(location, url) ==
    IF IsValidUrl(location)
    THEN IF HostEnd(location) = Len(location) THEN location \o <<"/">>
         ELSE location
    ELSE IF location[1] = "/" THEN origin(url) \o location
    ELSE origin(url) \o directory(pathname(url)) \o location

\* isRedirect that does not follow a 301
isRedirect_not301(answer) ==
    /\ answer.statusCode > 301
    /\ answer.statusCode < 400
    /\ answer.location # NoHeader

\* the redirect test of the response callback
isRedirect(answer) ==
    /\ answer.statusCode >= 300
    /\ answer.statusCode < 400
    /\ answer.location # NoHeader

\* isFailure that lets every 2xx status pass
isFailure_non2xx(answer) == answer.statusCode \notin 200..299

\* the status test of the response callback: res.statusCode !== 200
isFailure(answer) == answer.statusCode # 200

\* fetchUrlExchange where a body that cannot be gunzipped rejects the promise
fetchUrlExchange_gunzipRejects(url, answer) ==
    IF ~IsValidUrl(url) THEN Rejected(InvalidUrlError)
    ELSE IF answer.kind = "error" THEN Rejected(RequestError)
    ELSE IF answer.kind = "timeout" THEN Rejected(TimedOutError)
    ELSE IF isRedirect(answer)
    THEN Pending(resolveUrl(answer.location, url))
    ELSE IF isFailure(answer)
    THEN Rejected(StatusCodeError(answer.statusCode))
    ELSE IF answer.contentEncoding = GzipEncoding
            /\ gunzipSync(answer.body).throws
    THEN Rejected(RequestError)
    ELSE Resolved(bufferToString(decompress(answer)))

\* one fetchUrl call, from new URL(url) to what its request is answered
\* with: the promise is settled, or resolved with the promise of the
\* fetchUrl call on the redirect target
fetchUrlExchange(url, answer) ==
    IF ~IsValidUrl(url) THEN Rejected(InvalidUrlError)
    ELSE IF answer.kind = "error" THEN Rejected(RequestError)
    ELSE IF answer.kind = "timeout" THEN Rejected(TimedOutError)
    ELSE IF isRedirect(answer)
    THEN Pending(resolveUrl(answer.location, url))
    ELSE IF isFailure(answer)
    THEN Rejected(StatusCodeError(answer.statusCode))
    ELSE Resolved(bufferToString(decompress(answer)))

-----------------------------------------------------------------------------
(* The servers explored: redirect chains and redirect cycles *)

\* the longest redirect chain, and the longest lead into a redirect cycle
MaxHops == 5
MaxLead == 1

\* the i-th URL of a server
Site(i) == HttpScheme \o Host \o <<"/", "d", "/", ToString(i)>>

LocationStyles == {"absolute", "root", "relative"}

\* the Location header that sends to Site(i)
locationTo(style, i) ==
    CASE style = "absolute" -> Site(i)
      [] style = "root" -> pathname(Site(i))
      [] style = "relative" -> <<ToString(i)>>

\* Site(1) .. Site(hops) redirect to the next site; Site(hops + 1) redirects
\* back to Site(loop) when loop > 0, and gives a final answer otherwise
Chains ==
    { [hops |-> n, style |-> st, loop |-> 0] :
        n \in 1..MaxHops, st \in LocationStyles }
        \cup {[hops |-> 0, style |-> "absolute", loop |-> 0]}
Cycles ==
    { w \in [hops : 0..MaxLead, style : LocationStyles, loop : 1..(MaxLead + 1)] :
        w.loop <= w.hops + 1 }
Webs == Chains \cup Cycles

Redirect(statusCode, location) ==
    Response(statusCode, location, NoHeader, <<>>)

\* the answers of the site a chain ends in
FinalAnswers ==
    { Response(200, NoHeader, NoHeader, XmlChars),
      Response(200, NoHeader, GzipEncoding, GzipChars),
      Response(200, NoHeader, GzipEncoding, TruncatedGzipChars),
      Response(200, NoHeader, GzipEncoding, XmlChars),
      Response(200, NoHeader, NoHeader, GzipChars),
      Response(204, NoHeader, NoHeader, <<>>),
      Response(304, NoHeader, NoHeader, <<>>),
      Response(404, NoHeader, NoHeader, XmlChars),
      Response(500, NoHeader, NoHeader, <<>>),
      SocketError, Silence }

\* what the server w may answer a request for url with
answers(w, url) ==
    IF \E i \in 1..w.hops : Site(i) = url
    THEN LET i == CHOOSE i \in 1..w.hops : Site(i) = url
         IN  {Redirect(302, locationTo(w.style, i + 1))}
    ELSE IF url # Site(w.hops + 1)
    THEN {Response(404, NoHeader, NoHeader, <<>>)}
    ELSE IF w.loop > 0
    THEN {Redirect(301, locationTo(w.style, w.loop))}
    ELSE FinalAnswers

-----------------------------------------------------------------------------
(* fetchWithRetry of sitemap.js and of a11y.js around fetchUrl *)

NoCurl == [ok |-> FALSE, content |-> Content(<<"not run">>, NoDoc)]

\* curl fails, or prints text, bytes or nothing
CurlOutcomes ==
    { FetchFailed, Fetched(Content(XmlChars, NoDoc)),
      Fetched(Content(GzipChars, NoDoc)), Fetched(Content(<<>>, NoDoc)) }

\* new Error(`All fetch methods failed: ${error.message}`)
AllFailedError(error) ==
    [kind |-> "All fetch methods failed", statusCode |-> error.statusCode]

\* one request of the fetchUrl call in progress and the answer to it; a
\* redirect makes the next fetchUrl call, whose promise the pending promise
\* is resolved with
fetchUrl ==
    /\ pc = "fetch"
    /\ fpc = "request"
    /\ \E answer \in answers(web, reqUrl) :
         LET promise == fetchUrlExchange(reqUrl, answer)
         IN  /\ res' = IF IsValidUrl(reqUrl) THEN answer ELSE res
             /\ settled' = promise
             /\ IF promise.state = "pending"
                THEN /\ reqUrl' = promise.url
                     /\ hops' = min(hops + 1, MaxHops + 1)
                     /\ fpc' = "request"
                ELSE /\ fpc' = "settled"
                     /\ UNCHANGED <<reqUrl, hops>>
    /\ UNCHANGED <<script, mainVars, web, target, attemptLog, curlOutput,
                   result, fetchRetries, lastError, waits>>

\* sitemap.js fetchWithRetry after await fetchUrl(url)
awaitFetchUrl ==
    /\ pc = "fetch"
    /\ script = "sitemap.js"
    /\ fpc = "settled"
    /\ LET primary == IF settled.state = "resolved"
                      THEN Fetched(Content(settled.value, NoDoc))
                      ELSE FetchFailed
       IN  \E curl \in curlChoices(target, primary, CurlOutcomes) :
             LET r == fetchWithRetry(target, primary, curl)
             IN  /\ curlOutput' = IF curlRuns(target, primary)
                                  THEN curl ELSE NoCurl
                 /\ IF r.ok
                    THEN /\ fpc' = "returned"
                         /\ result' = Resolved(r.content.chars)
                    ELSE /\ fpc' = "thrown"
                         /\ result' = Rejected(AllFailedError(settled.error))
    /\ attemptLog' = Append(attemptLog, settled)
    /\ UNCHANGED <<script, mainVars, web, target, reqUrl, hops, res, settled,
                   fetchRetries, lastError, waits>>

\* backoffDelay that does not grow
backoffDelay_constant(retries) == 1000

\* the delay of setTimeout(resolve, 1000 * retries)
backoffDelay(retries) == 1000 * retries

\* a11y.js fetchWithRetry after await fetchUrl(url, timeout): the return, or
\* the catch block up to its setTimeout
a11yAwaitFetchUrl ==
    /\ pc = "fetch"
    /\ script = "a11y.js"
    /\ fpc = "settled"
    /\ attemptLog' = Append(attemptLog, settled)
    /\ IF settled.state = "resolved"
       THEN /\ fpc' = "returned"
            /\ result' = settled
            /\ UNCHANGED <<fetchRetries, lastError, waits>>
       ELSE /\ lastError' = settled.error
            /\ fetchRetries' = fetchRetries + 1
            /\ waits' = Append(waits, backoffDelay(fetchRetries + 1))
            /\ fpc' = "backoff"
            /\ UNCHANGED result
    /\ UNCHANGED <<script, mainVars, web, target, reqUrl, hops, res, settled,
                   curlOutput>>

\* a11y.js fetchWithRetry when the timer fires: the while test, then the
\* next fetchUrl call or the throw behind the loop
a11yBackoffOver ==
    /\ pc = "fetch"
    /\ script = "a11y.js"
    /\ fpc = "backoff"
    /\ IF fetchRetries < MaxRetries
       THEN /\ fpc' = "request"
            /\ reqUrl' = target
            /\ hops' = 0
            /\ settled' = Pending(target)
            /\ res' = NoAnswer
            /\ UNCHANGED result
       ELSE /\ fpc' = "thrown"
            /\ result' = Rejected(lastError)
            /\ UNCHANGED <<reqUrl, hops, settled, res>>
    /\ UNCHANGED <<script, mainVars, web, target, attemptLog, curlOutput,
                   fetchRetries, lastError, waits>>

\* no fetchWithRetry call is followed request by request
fetchIdle ==
    /\ web = [hops |-> 0, style |-> "absolute", loop |-> 0]
    /\ target = <<>>
    /\ reqUrl = <<>>
    /\ fpc = "idle"
    /\ hops = 0
    /\ res = NoAnswer
    /\ settled = Pending(<<>>)
    /\ attemptLog = <<>>
    /\ curlOutput = NoCurl
    /\ result = Pending(<<>>)
    /\ fetchRetries = 0
    /\ lastError = NoError
    /\ waits = <<>>

\* main has not started
mainIdle ==
    /\ robotsTxt = <<>>
    /\ robotsFetch = "none"
    /\ sitemapUrls = <<>>
    /\ idx = 0
    /\ frame = "idle"
    /\ todo = <<>>
    /\ sitemapContent = NoFetch
    /\ crawlLog = <<>>
    /\ a11ySitemapUrl = <<>>
    /\ a11ySitemap = NoFetch
    /\ childResults = <<>>
    /\ childIdx = 0
    /\ urls = <<>>
    /\ listFile = NoFile
    /\ sitemapMatches = <<>>
    /\ probes = <<>>
    /\ urlListCsv = NoFile
    /\ audits = <<>>
    /\ summaryFile = NoFile

\* fetchWithRetry(Site(1)) of either script against any of the servers
InitFetch ==
    /\ script \in {"sitemap.js", "a11y.js"}
    /\ websiteUrl = HttpScheme \o Host
    /\ pc = "fetch"
    /\ mainIdle
    /\ web \in Webs
    /\ target = Site(1)
    /\ reqUrl = Site(1)
    /\ fpc = "request"
    /\ hops = 0
    /\ res = NoAnswer
    /\ settled = Pending(Site(1))
    /\ attemptLog = <<>>
    /\ curlOutput = NoCurl
    /\ result = Pending(<<>>)
    /\ fetchRetries = 0
    /\ lastError = NoError
    /\ waits = <<>>

NextFetch ==
    \/ fetchUrl
    \/ awaitFetchUrl
    \/ a11yAwaitFetchUrl
    \/ a11yBackoffOver

SpecFetch == InitFetch /\ [][NextFetch]_vars

Init ==
    /\ script \in {"sitemap.js", "a11y.js"}
    /\ websiteUrl \in IF script = "sitemap.js" THEN WebsiteUrls
                       ELSE A11yWebsiteUrls
    /\ pc = "main"
    /\ mainIdle
    /\ fetchIdle

Next ==
    \/ findSitemapsFromRobotsTxt
    \/ mainDefault
    \/ processSitemap
    \/ runScreamingFrog
    \/ processSitemapReturn
    \/ mainDone
    \/ findSitemapUrl
    \/ createUrlListFromSitemap
    \/ fetchChildSitemap
    \/ writeUrlList
    \/ runAccessibilityAudit
    \/ processSummaryReport

Spec == Init /\ [][Next]_vars

\* the runs of Spec and of SpecFetch together
SpecAll == (Init \/ InitFetch) /\ [][Next \/ NextFetch]_vars

-----------------------------------------------------------------------------
(* Properties of the locator of sitemap.js *)

\* the site origin of the input URL: scheme and host
siteOrigin == origin(websiteUrl)

\* C4: the list of sitemap URLs that main goes on to process is never empty,
\* whatever robots.txt gave.
C4_SitemapUrlsNeverEmpty ==
    (script = "sitemap.js" /\ pc \in {"loop", "done", "exit1"})
        => Len(sitemapUrls) > 0

\* robots.txt was fetched and declared nothing; main is about to process the
\* single default
C4_Witness ==
    /\ script = "sitemap.js"
    /\ pc = "loop"
    /\ robotsFetch = "ok"
    /\ Len(sitemapUrls) = 1
    /\ sitemapUrls[1] = baseUrl \o SitemapXmlPath

\* the declarations of a robots.txt text read line by line: for every line
\* whose trimmed, lower-cased text starts with sitemap:, what is behind that
\* prefix, trimmed, when it is not empty
RECURSIVE declaredIn(_)
declaredIn(lines) ==
    IF lines = <<>> THEN <<>>
    ELSE LET t == trim(lines[1])
             value == trim(SubSeq(t, Len(SitemapColon) + 1, Len(t)))
         IN  (IF startsWith(toLowerCase(t), SitemapColon) /\ value # <<>>
              THEN <<value>> ELSE <<>>) \o declaredIn(Tail(lines))

\* C5: for a textual robots.txt the locator returns exactly the values of the
\* lines that start (trimmed, case-insensitively) with sitemap:, one per such
\* line with a non-empty value, in file order.
C5_TextualRobotsDeclarations ==
    (script = "sitemap.js" /\ pc = "located" /\ robotsFetch = "ok"
        /\ isTextContent(robotsTxt))
        => sitemapUrls = declaredIn(split(robotsTxt))

\* a textual robots.txt with two declarations gave both, in file order
C5_Witness ==
    /\ script = "sitemap.js"
    /\ pc = "located"
    /\ robotsFetch = "ok"
    /\ isTextContent(robotsTxt)
    /\ sitemapUrls = <<UrlB, UrlA>>

\* C6: when the robots.txt fetch fails the failure is swallowed and the
\* locator returns exactly [<origin>/sitemap.xml, <origin>/sitemap_index.xml].
C6_FallbackAfterFetchFailure ==
    (script = "sitemap.js" /\ robotsFetch = "failed")
        => /\ pc # "main"
           /\ pc = "located" =>
                 sitemapUrls = << siteOrigin \o SitemapXmlPath,
                                  siteOrigin \o SitemapIndexXmlPath >>

\* C7: when robots.txt is fetched but declares no sitemap, the list of
\* sitemaps processed is exactly [<origin>/sitemap.xml].
C7_SingleDefaultWhenNoneDeclared ==
    [][(script = "sitemap.js" /\ pc = "located" /\ robotsFetch = "ok"
          /\ Len(sitemapUrls) = 0)
          => sitemapUrls' = <<siteOrigin \o SitemapXmlPath>>]_vars

\* the origin the robots.txt URL was formed on
robotsOrigin == SubSeq(robotsUrl, 1, Len(robotsUrl) - Len(RobotsPath))

\* main processes conventional fallback URLs only
fallbackInUse ==
    /\ script = "sitemap.js"
    /\ pc = "loop"
    /\ \/ robotsFetch = "failed"
       \/ sitemapUrls = <<baseUrl \o SitemapXmlPath>>

\* C8: the robots.txt URL and the conventional fallback sitemap URLs are all
\* formed on the same site origin (scheme and host), with no trailing slash
\* before the appended path, for every input URL.
C8_FallbacksOnSiteOrigin ==
    /\ script = "sitemap.js" => robotsOrigin = siteOrigin
    /\ fallbackInUse =>
          \A i \in 1..Len(sitemapUrls) :
             sitemapUrls[i] \in { robotsOrigin \o SitemapXmlPath,
                                  robotsOrigin \o SitemapIndexXmlPath }

-----------------------------------------------------------------------------
(* Properties of processSitemap in sitemap.js *)

\* the processSitemap call in progress has made all its crawler calls
callComplete ==
    script = "sitemap.js" /\ pc = "loop" /\ frame # "idle" /\ todo = <<>>

\* the fetched document was handled as a sitemap index
handledAsIndex ==
    /\ sitemapContent.ok
    /\ ~sitemapContent.content.doc.malformed
    /\ truthy(XMLParse(sitemapContent.content.doc).sitemapindex)

indexEntries == sitemapContent.content.doc.sitemapindex.entries

urlsOf(log) == [i \in 1..Len(log) |-> log[i].url]

\* C1: processSitemap never propagates an error to main, whatever the
\* sitemap reference and whatever the outcome of fetching, parsing and
\* crawling: main never reaches its 'Error during sitemap processing' exit.
C1_ProcessSitemapNeverThrows == script = "sitemap.js" => pc # "exit1"

\* the locs of the entries that can be handed to the crawler, in document order
usableLocs(entries) ==
    SelectSeq([i \in 1..Len(entries) |-> locOf(entries[i])], IsValidUrl)

\* C2: when one child of a sitemap index fails (crawler error, or a loc that
\* is missing or unusable), every other child of the index is still handed
\* to the crawler, in document order, and the run is not aborted.
C2_IndexSurvivesFailingChild ==
    /\ (callComplete /\ handledAsIndex) =>
           urlsOf(SelectSeq(crawlLog, LAMBDA e : e.parent # NoFolder))
               = usableLocs(indexEntries)
    /\ (script = "sitemap.js" /\ handledAsIndex) => pc # "exit1"

\* a well-formed sitemapindex document: at least one entry, every entry with
\* an absolute loc
wellFormedIndex ==
    /\ sitemapContent.ok
    /\ ~sitemapContent.content.doc.malformed
    /\ sitemapContent.content.doc.sitemapindex.present
    /\ indexEntries # <<>>
    /\ \A i \in 1..Len(indexEntries) :
          ~indexEntries[i].empty /\ IsValidUrl(indexEntries[i].loc)

\* C10: for a well-formed sitemapindex document with n >= 1 entries the
\* crawler is invoked exactly once per entry, on that entry's loc, in document
\* order, each time below the folder of the index; a single entry counts as a
\* one-element sequence.
C10_OneCrawlPerIndexEntry ==
    (script = "sitemap.js" /\ pc = "loop" /\ frame # "idle" /\ wellFormedIndex)
        => /\ frame = "try"
           /\ Len(crawlLog) + Len(todo) = Len(indexEntries)
           /\ \A i \in 1..Len(crawlLog) :
                 /\ crawlLog[i].url = indexEntries[i].loc
                 /\ crawlLog[i].parent
                        = prepareOutputFolder(sitemapUrls[idx], TRUE)

\* a one-entry index has been crawled completely
C10_Witness ==
    /\ callComplete
    /\ wellFormedIndex
    /\ Len(indexEntries) = 1
    /\ Len(crawlLog) = 1

-----------------------------------------------------------------------------
(* Properties of createUrlListFromSitemap in a11y.js *)

\* the loc values of the entries of a document, in document order
RECURSIVE locValues(_)
locValues(entries) ==
    IF entries = <<>> THEN <<>>
    ELSE (IF ~entries[1].empty /\ entries[1].loc # Undefined
          THEN <<entries[1].loc>> ELSE <<>>) \o locValues(Tail(entries))

\* the page URLs a fetched child contributes: those of its urlset, none when
\* its fetch or its parse failed
pageUrlsOf(r) ==
    IF r.ok /\ ~r.content.doc.malformed
    THEN locValues(r.content.doc.urlset.entries)
    ELSE <<>>

RECURSIVE flatten(_)
flatten(seqs) == IF seqs = <<>> THEN <<>> ELSE seqs[1] \o flatten(Tail(seqs))

collected == flatten([i \in 1..Len(childResults) |-> pageUrlsOf(childResults[i])])

firstN(list, n) == [i \in 1..(IF Len(list) < n THEN Len(list) ELSE n) |-> list[i]]

\* createUrlListFromSitemap handles the fetched document as a sitemap index
a11yIndex ==
    /\ script = "a11y.js"
    /\ pc \in {"children", "collected", "listed", "exit1"}
    /\ a11ySitemap.ok
    /\ ~a11ySitemap.content.doc.malformed
    /\ a11ySitemap.content.doc.sitemapindex.present
    /\ truthy(XMLParse(a11ySitemap.content.doc).sitemapindex)

\* C3: when the fetch or parse of one child of a sitemap index fails, the
\* expansion continues: the failing child contributes nothing, and the page
\* URLs of all other processed children, before and after it, are in the
\* collected sequence in order; the list file holds that sequence up to its
\* limit.
C3_FailingChildContributesNothing ==
    a11yIndex =>
        /\ pc \in {"children", "collected"} => urls = collected
        /\ pc = "collected" =>
              Len(childResults) =
                  min(MaxSitemaps,
                      Len(a11ySitemap.content.doc.sitemapindex.entries))
        /\ pc = "listed" => listFile = firstN(collected, MaxUrls)
        /\ pc = "exit1" => collected = <<>>

\* the second of three children failed, the first and the third gave URLs
C3_Witness ==
    /\ a11yIndex
    /\ pc = "collected"
    /\ Len(childResults) = 3
    /\ ~childResults[2].ok
    /\ pageUrlsOf(childResults[1]) = <<PageUrl(1)>>
    /\ pageUrlsOf(childResults[3]) = <<PageUrl(2)>>
    /\ urls = <<PageUrl(1), PageUrl(2)>>

\* createUrlListFromSitemap handles the fetched document as a urlset
a11yUrlset ==
    /\ script = "a11y.js"
    /\ pc \in {"collected", "listed"}
    /\ a11ySitemap.ok
    /\ ~a11ySitemap.content.doc.malformed
    /\ ~truthy(XMLParse(a11ySitemap.content.doc).sitemapindex)
    /\ a11ySitemap.content.doc.urlset.present

urlsetEntries == a11ySitemap.content.doc.urlset.entries

\* C9 as stated: the URL sequence written out is exactly the sequence of the
\* loc values of the urlset, for any number of entries.
C9_AllLocsWritten ==
    (a11yUrlset /\ pc = "listed") => listFile = locValues(urlsetEntries)

\* C9, amended: the URL sequence extracted is the sequence of the loc values
\* of the urlset in document order, and the sequence written out is its
\* first min(50, n) elements.
C9_FirstFiftyLocsWritten ==
    /\ (a11yUrlset /\ pc = "collected") => urls = locValues(urlsetEntries)
    /\ (a11yUrlset /\ pc = "listed") =>
           /\ listFile = firstN(locValues(urlsetEntries), MaxUrls)
           /\ urls = listFile

\* a urlset of MaxUrls + 1 entries has been written out
C9_Witness ==
    /\ a11yUrlset
    /\ pc = "listed"
    /\ Len(urlsetEntries) = MaxUrls + 1
    /\ Len(listFile) = MaxUrls
    /\ listFile[MaxUrls] = PageUrl(MaxUrls)

-----------------------------------------------------------------------------
(* Classification of a sitemap document, in both scripts *)

\* a root element that parses to a non-empty value: it is there and holds
\* more than a single empty child element
nonEmptyRoot(root) ==
    /\ root.present
    /\ root.entries # <<>>
    /\ ~(Len(root.entries) = 1 /\ root.entries[1].empty)

\* the crawler calls processSitemap has made and has yet to make
crawlJobs == [i \in 1..Len(crawlLog) |-> Job(crawlLog[i].url, crawlLog[i].parent)]
                 \o todo

\* C11: a parsed sitemap document is handled in exactly one way. A document
\* with a non-empty sitemapindex root is handled as an index only, also when
\* it carries a urlset root: sitemap.js crawls its children below the folder
\* of the index and not the document itself, a11y.js collects the URLs of
\* its children and none of its own urlset. Without it, a document with a
\* non-empty urlset root is a leaf. A document with neither is the
\* unrecognized case: a11y.js gets zero URLs from it, sitemap.js hands the
\* document itself to the crawler once.
C11_ExactlyOneClassification ==
    /\ (script = "sitemap.js" /\ pc = "loop" /\ frame = "try") =>
          LET doc == sitemapContent.content.doc
              sitemapUrl == sitemapUrls[idx]
          IN  IF nonEmptyRoot(doc.sitemapindex)
              THEN /\ Len(crawlJobs) = Len(doc.sitemapindex.entries)
                   /\ \A i \in 1..Len(crawlJobs) :
                         crawlJobs[i].parent
                             = prepareOutputFolder(sitemapUrl, TRUE)
              ELSE crawlJobs = <<Job(sitemapUrl, NoFolder)>>
    /\ (/\ script = "a11y.js"
        /\ pc \in {"children", "collected"}
        /\ a11ySitemap.ok
        /\ ~a11ySitemap.content.doc.malformed) =>
          LET doc == a11ySitemap.content.doc
          IN  IF nonEmptyRoot(doc.sitemapindex)
              THEN /\ pc = "children" \/ Len(childResults) >= 1
                   /\ urls = collected
              ELSE IF nonEmptyRoot(doc.urlset)
              THEN /\ pc = "collected"
                   /\ childResults = <<>>
                   /\ urls = locValues(doc.urlset.entries)
              ELSE /\ pc = "collected"
                   /\ childResults = <<>>
                   /\ urls = <<>>

\* sitemap.js has crawled the one child of a document that carries both roots
C11_Witness ==
    /\ callComplete
    /\ frame = "try"
    /\ sitemapContent.ok
    /\ sitemapContent.content.doc = BothRootsDoc
    /\ urlsOf(crawlLog) = <<UrlB>>

-----------------------------------------------------------------------------
(* Duplicates in the collected URL sequence of a11y.js *)

\* the number of occurrences of a URL in a sequence
occurrences(u, list) == Cardinality({ i \in 1..Len(list) : list[i] = u })

\* the leaves the expansion has read so far, as their loc sequences in the
\* order they were read
leavesRead ==
    IF nonEmptyRoot(a11ySitemap.content.doc.sitemapindex)
    THEN [i \in 1..Len(childResults) |-> pageUrlsOf(childResults[i])]
    ELSE <<locValues(a11ySitemap.content.doc.urlset.entries)>>

RECURSIVE sumOccurrences(_, _)
sumOccurrences(u, leaves) ==
    IF leaves = <<>> THEN 0
    ELSE occurrences(u, leaves[1]) + sumOccurrences(u, Tail(leaves))

\* C12: the expansion does not de-duplicate. A URL that occurs k times over
\* the leaves read, in one leaf or over sibling leaves, occurs k times in the
\* collected sequence, and the collected sequence is the leaves' URLs in the
\* order they were met.
C12_DuplicatesKept ==
    (/\ script = "a11y.js"
     /\ pc \in {"children", "collected"}
     /\ a11ySitemap.ok
     /\ ~a11ySitemap.content.doc.malformed) =>
        /\ urls = flatten(leavesRead)
        /\ \A u \in {PageUrl(1), PageUrl(2)} :
              occurrences(u, urls) = sumOccurrences(u, leavesRead)

\* the same page URL came from two sibling leaves and is there twice
C12_Witness ==
    /\ a11yIndex
    /\ pc = "collected"
    /\ Len(childResults) = 2
    /\ pageUrlsOf(childResults[1]) = <<PageUrl(1)>>
    /\ pageUrlsOf(childResults[2]) = <<PageUrl(1)>>
    /\ occurrences(PageUrl(1), urls) = 2

\* the lines of a text: what stands between its line feeds
linesOf(text) ==
    LET feeds == {i \in 1..Len(text) : text[i] = "\n"}
        feed(k) == IF k = 0 THEN 0
                   ELSE IF k > Cardinality(feeds) THEN Len(text) + 1
                   ELSE CHOOSE i \in feeds :
                            Cardinality({j \in feeds : j < i}) = k - 1
    IN  [k \in 1..(Cardinality(feeds) + 1) |->
            SubSeq(text, feed(k - 1) + 1, feed(k) - 1)]

\* the number of lines of a text
lineCount(text) == Cardinality({i \in 1..Len(text) : text[i] = "\n"}) + 1

\* C23: the URL list file written by a11y.js never holds more than 50 URLs:
\* its lines are exactly the first min(50, n) of the n URLs extracted from
\* the sitemap, in extraction order, one URL per line.
C23_ListFileFirstFifty ==
    /\ (script = "a11y.js" /\ pc = "listed") =>
          LET extracted == flatten(leavesRead)
              n == Len(extracted)
          IN  /\ linesOf(urlListCsv) = firstN(extracted, 50)
              /\ lineCount(urlListCsv) = IF n < 50 THEN n ELSE 50
    /\ (script = "a11y.js" /\ urlListCsv # NoFile) =>
          lineCount(urlListCsv) <= 50

\* 51 URLs were extracted and the file holds the first 50, one per line
C23_Witness ==
    /\ script = "a11y.js"
    /\ pc = "listed"
    /\ Len(flatten(leavesRead)) = 51
    /\ Len(linesOf(urlListCsv)) = 50
    /\ linesOf(urlListCsv)[50] = PageUrl(50)

\* the loc values of the first n entries of the sitemap index
childLocs(n) ==
    [i \in 1..n |-> a11ySitemap.content.doc.sitemapindex.entries[i].loc]

\* C25: for a sitemap index with n sitemap entries, createUrlListFromSitemap
\* fetches exactly the first min(3, n) children in document order and no
\* others; what later children hold is never in the result.
C25_FirstThreeChildren ==
    a11yIndex =>
        LET n == Len(a11ySitemap.content.doc.sitemapindex.entries)
            fetched == [i \in 1..Len(childResults) |-> childResults[i].url]
        IN  /\ Len(childResults) <= 3
            /\ fetched = childLocs(Len(childResults))
            /\ pc \in {"collected", "listed", "exit1"} =>
                  Len(childResults) = IF n < 3 THEN n ELSE 3
            /\ pc \in {"children", "collected"} => urls = collected

\* of four different children the first three were fetched, the fourth not
C25_Witness ==
    /\ a11yIndex
    /\ pc = "listed"
    /\ a11ySitemap.content.doc = FourChildIndexDoc
    /\ [i \in 1..Len(childResults) |-> childResults[i].url]
           = <<UrlB, UrlA, UrlAPage2>>
    /\ \A i \in 1..3 : childResults[i].ok
    /\ listFile = collected

\* what findSitemapUrl is to return, from the declarations matched in
\* robots.txt and the probes as they went
expectedSitemapUrl ==
    IF sitemapMatches # <<>> THEN sitemapMatches[1]
    ELSE IF probes # <<>> /\ probes[Len(probes)]
         THEN baseUrl \o CommonSitemapPaths[Len(probes)]
         ELSE baseUrl \o <<"/", "s", "i", "t", "e", "m", "a", "p",
                            ".", "x", "m", "l">>

\* C28: findSitemapUrl always returns a sitemap URL: the first Sitemap
\* declaration of robots.txt if one matches; otherwise the first of
\* /sitemap.xml, /sitemap_index.xml, /sitemap.php, /sitemap.txt, probed in
\* that order, whose fetch succeeds; otherwise <baseUrl>/sitemap.xml. The
\* 'Could not find a sitemap' exit of main is never taken.
C28_AlwaysASitemapUrl ==
    /\ script = "a11y.js" => pc # "noSitemap"
    /\ (script = "a11y.js" /\ pc = "found") =>
          /\ a11ySitemapUrl # <<>>
          /\ a11ySitemapUrl # Undefined
          /\ a11ySitemapUrl = expectedSitemapUrl
          /\ \A i \in 1..(Len(probes) - 1) : ~probes[i]
          /\ (probes # <<>> /\ ~probes[Len(probes)]) => Len(probes) = 4
          /\ sitemapMatches # <<>> => probes = <<>>

\* robots.txt declared nothing, the third probe was the first to succeed
C28_Witness ==
    /\ script = "a11y.js"
    /\ pc = "found"
    /\ sitemapMatches = <<>>
    /\ probes = <<FALSE, FALSE, TRUE>>
    /\ a11ySitemapUrl = baseUrl \o <<"/", "s", "i", "t", "e", "m", "a", "p",
                                     ".", "p", "h", "p">>

\* the folder names of the four standards
AuditFolderNames ==
    << <<"W", "C", "A", "G", "_", "2", ".", "0", "_", "A", "_",
         "A", "l", "l", "_", "V", "i", "o", "l", "a", "t", "i", "o", "n", "s">>,
       <<"W", "C", "A", "G", "_", "2", ".", "0", "_", "A", "A", "_",
         "A", "l", "l", "_", "V", "i", "o", "l", "a", "t", "i", "o", "n", "s">>,
       <<"W", "C", "A", "G", "_", "2", ".", "0", "_", "A", "A", "A", "_",
         "A", "l", "l", "_", "V", "i", "o", "l", "a", "t", "i", "o", "n", "s">>,
       <<"W", "C", "A", "G", "_", "2", ".", "1", "_", "A", "A", "_",
         "A", "l", "l", "_", "V", "i", "o", "l", "a", "t", "i", "o", "n", "s">> >>

\* C26: runAccessibilityAudit invokes the crawler exactly once for each of
\* the four WCAG standards, in list order, each with its own output folder;
\* a failure of the crawler for one standard never prevents the audits of
\* the remaining standards or the generation of the summary report.
C26_EveryStandardAudited ==
    script = "a11y.js" =>
        /\ Len(audits) <= 4
        /\ \A i \in 1..Len(audits) :
              /\ audits[i].standard = WCAG_STANDARDS[i]
              /\ Len(audits[i].folder) = 4
              /\ audits[i].folder[4] = AuditFolderNames[i]
        /\ \A i, j \in 1..Len(audits) :
              i # j => audits[i].folder # audits[j].folder
        /\ audits # <<>> => pc \in {"auditing", "audited", "done"}
        /\ pc = "auditing" => (Len(audits) < 4 /\ ENABLED runAccessibilityAudit)
        /\ pc = "audited" => (Len(audits) = 4 /\ ENABLED processSummaryReport)
        /\ pc = "done" => (Len(audits) = 4 /\ Len(summaryFile) = 4)

\* the crawler failed for the second standard; all four were audited and
\* the summary was written
C26_Witness ==
    /\ script = "a11y.js"
    /\ pc = "done"
    /\ Len(audits) = 4
    /\ audits[2].outcome = "failed"
    /\ audits[3].outcome = "exported"
    /\ summaryFile # NoFile
    /\ summaryFile[2].error
    /\ ~summaryFile[3].error

\* the sitemap createUrlListFromSitemap fetched cannot be read: its fetch or
\* its parse failed
sitemapUnreadable == ~a11ySitemap.ok \/ a11ySitemap.content.doc.malformed

\* C29: the steps of main are ordered and gated. The crawler is invoked only
\* with a URL list file of at least one URL written before; the summary is
\* written only after all audits; when the sitemap fetch or parse fails or
\* no URL is extracted, the run exits with failure, no crawler invoked and no
\* summary written.
C29_StepsGated ==
    [][script = "a11y.js" =>
         /\ audits' # audits =>
               /\ urlListCsv # NoFile
               /\ Len(listFile) >= 1
               /\ \A i \in 1..Len(listFile) : listFile[i] # <<>>
               /\ audits'[Len(audits')].crawlList = urlListCsv
               /\ summaryFile = NoFile
         /\ summaryFile' # summaryFile =>
               /\ Len(audits) = Len(WCAG_STANDARDS)
               /\ audits' = audits
         /\ (pc = "found" /\ pc' # "found" /\ sitemapUnreadable') =>
               pc' = "exit1"
         /\ (pc = "collected" /\ pc' # "collected" /\ urls = <<>>) =>
               pc' = "exit1"
         /\ pc' = "exit1" =>
               /\ audits' = <<>>
               /\ urlListCsv' = NoFile
               /\ summaryFile' = NoFile
         /\ pc = "exit1" => pc' = "exit1"
      ]_vars

\* the crawler has run on a list file of two URLs
C29_Witness ==
    /\ script = "a11y.js"
    /\ pc = "auditing"
    /\ Len(audits) = 1
    /\ Len(listFile) = 2
    /\ audits[1].crawlList = urlListCsv

-----------------------------------------------------------------------------
(* Properties of fetchWithRetry of sitemap.js *)

\* the fetchWithRetry call of sitemap.js has thrown
sitemapFetchThrown == pc = "fetch" /\ script = "sitemap.js" /\ fpc = "thrown"

\* C13: fetchWithRetry of sitemap.js throws only after its fallbacks are
\* used up: whenever it throws, the HTTP fetch and the curl command have
\* both been attempted for the URL.
C13_ThrowsOnlyAfterCurl ==
    sitemapFetchThrown => (attemptLog # <<>> /\ curlOutput # NoCurl)

\* C14: sitemap.js re-attempts a failed HTTP request: when the first request
\* for the URL fails (socket error, timeout or error status), the URL is
\* requested at least once more before the fetch is reported as failed.
C14_FailedRequestRetried ==
    (sitemapFetchThrown /\ hops = 0) => Len(attemptLog) >= 2

\* C15: once fetchUrl has resolved, fetchWithRetry of sitemap.js returns:
\* the content fetchUrl gave when that is text, without running curl;
\* otherwise it runs curl and returns what curl printed when curl succeeded
\* and printed text, and the content fetchUrl gave in every other case.
C15_PrimarySuccessNeverFails ==
    (/\ pc = "fetch"
     /\ script = "sitemap.js"
     /\ fpc \in {"returned", "thrown"}
     /\ attemptLog[1].state = "resolved") =>
        LET response == attemptLog[1].value
        IN  /\ fpc = "returned"
            /\ result.state = "resolved"
            /\ IF isTextContent(response)
               THEN curlOutput = NoCurl /\ result.value = response
               ELSE /\ curlOutput # NoCurl
                    /\ IF curlOutput.ok
                          /\ isTextContent(curlOutput.content.chars)
                       THEN result.value = curlOutput.content.chars
                       ELSE result.value = response

\* fetchUrl gave bytes, curl printed text, and the text was returned
C15_Witness ==
    /\ pc = "fetch"
    /\ script = "sitemap.js"
    /\ fpc = "returned"
    /\ ~isTextContent(attemptLog[1].value)
    /\ curlOutput = Fetched(Content(XmlChars, NoDoc))
    /\ result.value = XmlChars

-----------------------------------------------------------------------------
(* Properties of fetchUrl, in both scripts *)

\* the top-level fetchUrl promise has just been settled
fetchSettled == pc = "fetch" /\ fpc = "settled"

\* the last answer is a 200 response that declares gzip and cannot be
\* gunzipped
undecodableGzip ==
    /\ res.kind = "response"
    /\ res.statusCode = 200
    /\ res.contentEncoding = GzipEncoding
    /\ gunzipSync(res.body).throws

redirectAnswer ==
    /\ res.kind = "response"
    /\ res.statusCode \in 300..399
    /\ res.location # NoHeader

\* C17: every response whose status is neither 2xx nor a redirect (3xx with
\* a Location header) rejects the fetchUrl promise, with an error that
\* carries the status code of that response; only a redirect leaves the
\* promise pending.
C17_StatusRejects ==
    pc = "fetch" =>
        /\ (fpc = "request" /\ res.kind = "response") => redirectAnswer
        /\ (/\ fpc = "settled"
            /\ res.kind = "response"
            /\ res.statusCode \notin 200..299
            /\ ~redirectAnswer) =>
              /\ settled.state = "rejected"
              /\ settled.error.kind = "Request failed with status code"
              /\ settled.error.statusCode = res.statusCode

\* a 404 and a 3xx without Location header were rejected with their codes
C17_Witness ==
    /\ script = "a11y.js"
    /\ fetchSettled
    /\ res.statusCode = 304
    /\ settled.error.statusCode = 304
    /\ Len(attemptLog) = 1
    /\ attemptLog[1].error.statusCode = 404

\* the server is an acyclic redirect chain
chainWeb == pc = "fetch" /\ web.loop = 0

\* the text of the body of the last answer
contentOf(answer) == bufferToString(decompress(answer))

\* C18: on an acyclic redirect chain of up to MaxHops hops, with absolute or
\* relative Location headers, every hop requests the next URL of the chain:
\* the promise is settled by the answer of the final URL only, and when that
\* is a 200 response the promise is resolved with the content of the final
\* URL.
C18_RedirectChainResolves ==
    (chainWeb /\ web.hops <= MaxHops) =>
        /\ fpc = "request" => (hops <= web.hops /\ reqUrl = Site(hops + 1))
        /\ fpc = "settled" =>
              /\ hops = web.hops
              /\ reqUrl = Site(web.hops + 1)
              /\ (res.kind = "response" /\ res.statusCode = 200) =>
                    settled = Resolved(contentOf(res))

\* a chain of MaxHops relative redirects was followed to its gzipped content
C18_Witness ==
    /\ chainWeb
    /\ web.hops = MaxHops
    /\ web.style = "relative"
    /\ fpc = "settled"
    /\ res.contentEncoding = GzipEncoding
    /\ settled = Resolved(XmlChars)

\* C19: fetchUrl has no bound on the redirects it follows. On a redirect
\* cycle it neither resolves nor rejects, there is always a next request to
\* make, and the fetchWithRetry call around it never returns or throws.
C19_RedirectCycleNeverSettles ==
    (pc = "fetch" /\ web.loop > 0) =>
        /\ fpc = "request"
        /\ settled.state = "pending"
        /\ result.state = "pending"
        /\ ENABLED fetchUrl

\* more than MaxHops redirects of a cycle have been followed
C19_Witness ==
    /\ pc = "fetch"
    /\ web.loop > 0
    /\ hops = MaxHops + 1
    /\ fpc = "request"

-----------------------------------------------------------------------------
(* Properties of fetchWithRetry of a11y.js *)

\* the attempts of the log that failed
failedAttempts == SelectSeq(attemptLog, LAMBDA a : a.state = "rejected")

\* C20: the retry policy of fetchWithRetry of a11y.js. Every attempt but the
\* last one made has failed, so the first success is returned with no
\* further attempt; a failure of any kind is followed by a wait of
\* N x 1000 ms after the N-th failure and, below MaxRetries failures, by the
\* next attempt; there are at most MaxRetries attempts; after MaxRetries
\* failures the error of the last attempt is thrown.
C20_RetryPolicy ==
    (pc = "fetch" /\ script = "a11y.js") =>
        /\ Len(attemptLog) <= MaxRetries
        /\ \A i \in 1..(Len(attemptLog) - 1) : attemptLog[i].state = "rejected"
        /\ fetchRetries = Len(failedAttempts)
        /\ waits = [n \in 1..Len(failedAttempts) |-> n * 1000]
        /\ fpc = "returned" =>
              /\ attemptLog[Len(attemptLog)].state = "resolved"
              /\ result = attemptLog[Len(attemptLog)]
        /\ fpc = "thrown" =>
              /\ Len(failedAttempts) = MaxRetries
              /\ result = Rejected(attemptLog[MaxRetries].error)
        /\ (fpc \in {"request", "settled"}) => Len(attemptLog) < MaxRetries

\* a socket error, a timeout and a 500: three waits, the 500 is thrown
C20_Witness ==
    /\ pc = "fetch"
    /\ script = "a11y.js"
    /\ fpc = "thrown"
    /\ attemptLog[1].error = RequestError
    /\ attemptLog[2].error = TimedOutError
    /\ attemptLog[3].error = StatusCodeError(500)
    /\ waits = <<1000, 2000, 3000>>
    /\ result = Rejected(StatusCodeError(500))

-----------------------------------------------------------------------------
(* The text heuristic of sitemap.js *)

\* the number of characters of content with a code of 32..126
printableCount(content) ==
    Cardinality({ i \in 1..Len(content) : charCodeAt(content[i]) \in 32..126 })

\* more than 0.8 of the characters of content are printable; the fraction of
\* the empty content is no number and not more than 0.8
mostlyPrintable(content) ==
    Len(content) > 0 /\ 5 * printableCount(content) > 4 * Len(content)

\* C22: content is textual exactly when its characters with a code of
\* 32..126 are strictly more than 0.8 of all its characters; at exactly 0.8,
\* and when it is empty, it is binary. For a fetched robots.txt this decides
\* the path: a textual one is scanned line by line, a binary one by the
\* regular expression.
C22_TextualAboveEightyPercent ==
    /\ (script = "sitemap.js" /\ pc = "located" /\ robotsFetch = "ok") =>
          sitemapUrls = IF mostlyPrintable(robotsTxt)
                        THEN lineScan(robotsTxt)
                        ELSE regexSitemaps(robotsTxt, 1)
    /\ mostlyPrintable(robotsTxt) <=> isTextContent(robotsTxt)

\* a robots.txt with exactly 0.8 printable characters went down the regex
\* path, which finds the declaration that the line scan does not
C22_Witness ==
    /\ script = "sitemap.js"
    /\ pc = "located"
    /\ robotsFetch = "ok"
    /\ 5 * printableCount(robotsTxt) = 4 * Len(robotsTxt)
    /\ robotsTxt = EightyPercentBody
    /\ lineScan(robotsTxt) = <<>>
    /\ sitemapUrls = <<UrlA>>

-----------------------------------------------------------------------------
(* The statuses fetchUrl resolves for *)

\* C30: fetchUrl resolves with content only for a response with status 200.
\* A 2xx response other than 200 and a 3xx response without a Location
\* header reject the promise; a 3xx response with a Location header never
\* settles it.
C30_ResolvesOnlyFor200 ==
    fetchSettled =>
        /\ settled.state = "resolved" =>
              (res.kind = "response" /\ res.statusCode = 200)
        /\ (res.kind = "response" /\ res.statusCode \in 201..299) =>
              settled = Rejected(StatusCodeError(res.statusCode))
        /\ (/\ res.kind = "response"
            /\ res.statusCode \in 300..399
            /\ res.location = NoHeader) =>
              settled = Rejected(StatusCodeError(res.statusCode))
        /\ ~redirectAnswer

\* a 3xx without Location header and then a 204 were both rejected
C30_Witness ==
    /\ script = "a11y.js"
    /\ fetchSettled
    /\ res.statusCode = 204
    /\ settled.state = "rejected"
    /\ Len(attemptLog) = 1
    /\ attemptLog[1] = Rejected(StatusCodeError(304))

-----------------------------------------------------------------------------
(* Output folders of sitemap.js *)

\* C24: every crawled sitemap has an output folder of its own: two crawler
\* calls of one processSitemap call on different sitemap URLs never get the
\* same output folder.
C24_FoldersDistinct ==
    script = "sitemap.js" =>
        \A i, j \in 1..Len(crawlLog) :
            crawlLog[i].url # crawlLog[j].url =>
                crawlLog[i].folder # crawlLog[j].folder

-----------------------------------------------------------------------------
(* The loop of main in sitemap.js *)

\* C27: main processes every located sitemap URL, once and in list order,
\* and every processSitemap call, whatever its outcome path, invokes the
\* crawler at least once: on each child when the document is an index, on
\* the sitemap URL itself otherwise.
C27_EverySitemapCrawled ==
    script = "sitemap.js" =>
        /\ pc \in {"done", "exit1"} => idx = Len(sitemapUrls) + 1
        /\ callComplete =>
              /\ Len(crawlLog) >= 1
              /\ IF handledAsIndex
                 THEN urlsOf(crawlLog)
                          = [i \in 1..Len(indexEntries) |-> indexEntries[i].loc]
                 ELSE urlsOf(crawlLog) = <<sitemapUrls[idx]>>

-----------------------------------------------------------------------------
(* Sequential discovery *)

\* C21: discovery is strictly sequential. sitemap.js fetches a sitemap only
\* when no processSitemap call is in progress, and makes its crawler calls
\* one at a time inside the call whose fetch has completed; a11y.js fetches
\* the children of an index one at a time; a retry attempt starts only after
\* the attempt before it has failed and its wait is over.
C21_StrictlySequential ==
    [][/\ (/\ script = "sitemap.js"
           /\ sitemapContent' # sitemapContent
           /\ sitemapContent' # NoFetch) =>
             (frame = "idle" /\ todo = <<>>)
       /\ (script = "sitemap.js" /\ crawlLog' # crawlLog /\ crawlLog' # <<>>) =>
             /\ Len(crawlLog') = Len(crawlLog) + 1
             /\ frame # "idle"
             /\ sitemapContent' = sitemapContent
       /\ (/\ script = "a11y.js"
           /\ childResults' # childResults
           /\ childResults' # <<>>) =>
             /\ Len(childResults') = Len(childResults) + 1
             /\ childIdx' = Len(childResults')
       /\ (pc = "fetch" /\ fpc # "request" /\ fpc' = "request") =>
             /\ fpc = "backoff"
             /\ settled.state = "rejected"
             /\ Len(attemptLog) = fetchRetries
      ]_vars

\* the second sitemap of the list is being crawled
C21_Witness ==
    /\ script = "sitemap.js"
    /\ pc = "loop"
    /\ idx = 2
    /\ frame = "try"
    /\ Len(crawlLog) = 1
    /\ todo # <<>>

====
